---- MODULE Spec2Model ----
(***************************************************************************)
(* ShopMetrics order service (services/order-service/main.py).             *)
(*                                                                         *)
(* The service is a set of request handlers running as independent tasks   *)
(* over a PostgreSQL pool (READ COMMITTED), a Redis cache and an SQS       *)
(* queue.  Every `await` on the database, the cache or the queue is one    *)
(* step of the task that runs the handler; tasks interleave between steps. *)
(*                                                                         *)
(* Monetary values (Decimal) are integers in minor units; Decimal          *)
(* multiplication and addition are exact on them.  Timestamps are seconds. *)
(* Statements run outside conn.transaction() autocommit.  A transaction    *)
(* keeps its writes in the task's write set until COMMIT; the rows a       *)
(* DELETE touched stay locked until the transaction ends.                  *)
(***************************************************************************)
EXTENDS Integers, Sequences, FiniteSets

VARIABLES
    cart,          \* table cart: id -> [user_id, created_at, expires_at]
    cart_items,    \* table cart_items: set of rows
    orders,        \* table orders: id -> row
    order_items,   \* table order_items: set of rows
    next_cart_id,  \* sequence behind cart.id
    next_order_id, \* sequence behind orders.id
    order_cart,    \* history: orders.id -> the cart_id of the request that inserted it
    cache,         \* redis: cart id -> [value, expires] or NoEntry
    sqs,           \* messages accepted by the queue
    queue_url,     \* whether ORDER_QUEUE_URL is set in the environment
    now,           \* wall clock, seconds
    ticks,         \* number of clock advances so far
    pc,            \* task -> position in its handler
    req,           \* task -> the request it is serving
    loc,           \* task -> locals of the handler
    resp           \* task -> HTTP response of the finished handler

vars == <<cart, cart_items, orders, order_items, next_cart_id, next_order_id,
          order_cart, cache, sqs, queue_url, now, ticks, pc, req, loc, resp>>

db == <<cart, cart_items, orders, order_items>>
seqs == <<next_cart_id, next_order_id>>
env == <<queue_url, now, ticks>>

\* ---------------------------------------------------------------- bounds
MaxCarts == 1
MaxOrders == 2
MaxItems == 2
MaxTicks == 1

\* ---------------------------------------------------------------- program constants
CartTTL == 86400
CacheTTL == 300

\* ---------------------------------------------------------------- inputs
\* the clock advances past the expiry of the carts (and of the cache entries) that exist
TickSteps == {CartTTL + 1}
Tasks == {1, 2}
\* owners of carts, and the user_id values of create_order requests
Users == {"u1", "u2"}
Requesters == {"u1"}
Products == {"p1"}
Quantities == {-1, 0, 1, 2}
Prices == {5}
RequestedStatuses == {"pending", "completed", "cancelled", "shipped"}
\* limit and offset of get_user_orders (10 and 0 are the defaults)
Limits == {1, 10}
Offsets == {0, 1}

CartItem == [product_id : Products, quantity : Quantities, price : Prices]

ItemLists == UNION {[1..n -> CartItem] : n \in 0..MaxItems}

CartIds == 1..MaxCarts
OrderIds == 1..MaxOrders

NoCart == [id |-> 0, user_id |-> "none", items |-> {}, created_at |-> 0]
NoEntry == [value |-> NoCart, expires |-> 0]
NoReq == [op |-> "none"]
NoRow == [user_id |-> "none", created_at |-> 0, expires_at |-> 0]
NoOrder == [user_id |-> "none", status |-> "none", total |-> 0, currency |-> "none",
            created_at |-> 0, updated_at |-> 0]
NoLoc == [tx_start |-> 0, fetched |-> {}, total |-> 0, order_id |-> 0,
          w_items |-> {}, d_items |-> {}, d_cart |-> {},
          cart_id |-> 0, i |-> 0, row |-> NoRow, order |-> NoOrder]
NoResp == [status |-> 0, detail |-> "none", body |-> NoCart]

\* HTTPException(status_code, detail) and the success bodies
Response(s, d, b) == [status |-> s, detail |-> d, body |-> b]

\* ---------------------------------------------------------------- pure functions
\* the validator with the comparison off by one
quantity_not_negative(v) == v >= 0

\* CartItem.quantity_must_be_positive
quantity_must_be_positive(v) == v > 0

\* pydantic validation of CreateCartRequest: every item passes its validators
ValidCartRequest(items) ==
    \A k \in 1..Len(items) : quantity_must_be_positive(items[k].quantity)

RECURSIVE SumRows(_)
SumRows(rows) ==
    IF rows = {} THEN 0
    ELSE LET r == CHOOSE x \in rows : TRUE
         IN  r.quantity * r.price + SumRows(rows \ {r})

\* the sum with the quantity left out of every line
CalcTotal_PriceOnly(rows) == SumRows({[r EXCEPT !.quantity = 1] : r \in rows})

\* total = sum(item['quantity'] * item['price'] for item in cart_items)
CalcTotal(rows) == SumRows(rows)

\* rows of cart_items with the given cart_id
ItemsOf(c) == {r \in cart_items : r.cart_id = c}

\* rows of order_items with the given order_id
OrderItemsOf(o) == {r \in order_items : r.order_id = o}

\* redis GET: the value of the key, None (NoCart) when it is absent or past its TTL
CacheGet(c) ==
    IF now < cache[c].expires THEN cache[c].value ELSE NoCart

\* tasks inside conn.transaction()
InTx(p) == pc[p] \in {"co_insert_order", "co_insert_items", "co_delete_items",
                      "co_delete_cart", "co_send", "co_commit"}

\* cart_items rows locked by a DELETE of another open transaction
LockedItems(p) == UNION {loc[q].d_items : q \in {t \in Tasks : t # p /\ InTx(t)}}

\* cart rows locked by a DELETE of another open transaction
LockedCarts(p) == UNION {loc[q].d_cart : q \in {t \in Tasks : t # p /\ InTx(t)}}

\* ---------------------------------------------------------------- initial state
Init ==
    /\ cart = [c \in {} |-> 0]
    /\ cart_items = {}
    /\ orders = [o \in {} |-> 0]
    /\ order_items = {}
    /\ next_cart_id = 1
    /\ next_order_id = 1
    /\ order_cart = [o \in {} |-> 0]
    /\ cache = [c \in CartIds |-> NoEntry]
    /\ sqs = {}
    /\ queue_url \in BOOLEAN
    /\ now = 0
    /\ ticks = 0
    /\ pc = [p \in Tasks |-> "idle"]
    /\ req = [p \in Tasks |-> NoReq]
    /\ loc = [p \in Tasks |-> NoLoc]
    /\ resp = [p \in Tasks |-> NoResp]

\* a handler ends: the response is recorded, the request and the locals are dropped
Finish(p, r) ==
    /\ pc' = [pc EXCEPT ![p] = "done"]
    /\ req' = [req EXCEPT ![p] = NoReq]
    /\ loc' = [loc EXCEPT ![p] = NoLoc]
    /\ resp' = [resp EXCEPT ![p] = r]

\* a request arrives: the handler starts at label l
Call(p, l, r) ==
    /\ pc' = [pc EXCEPT ![p] = l]
    /\ req' = [req EXCEPT ![p] = r]
    /\ UNCHANGED <<loc, resp>>

\* the handler moves to label l with locals nl
Step(p, l, nl) ==
    /\ pc' = [pc EXCEPT ![p] = l]
    /\ loc' = [loc EXCEPT ![p] = nl]
    /\ UNCHANGED <<req, resp>>

\* the client has read the response; the task serves the next request
Return(p) ==
    /\ pc[p] = "done"
    /\ pc' = [pc EXCEPT ![p] = "idle"]
    /\ resp' = [resp EXCEPT ![p] = NoResp]
    /\ UNCHANGED <<db, seqs, order_cart, cache, sqs, env, req, loc>>

\* time passes
Tick ==
    /\ ticks < MaxTicks
    /\ \E d \in TickSteps : now' = now + d
    /\ ticks' = ticks + 1
    /\ UNCHANGED <<db, seqs, order_cart, cache, sqs, queue_url, pc, req, loc, resp>>

\* ---------------------------------------------------------------- create_cart
\* POST /api/cart: request validation, then the handler starts
CreateCartCall(p) ==
    /\ pc[p] = "idle"
    /\ next_cart_id + Cardinality({q \in Tasks : pc[q] = "cc_insert_cart"}) <= MaxCarts
    /\ \E u \in Users, items \in ItemLists :
        IF ValidCartRequest(items)
        THEN Call(p, "cc_insert_cart", [op |-> "create_cart", user_id |-> u, items |-> items])
        ELSE Finish(p, Response(422, "Quantity must be positive", NoCart))
    /\ UNCHANGED <<db, seqs, order_cart, cache, sqs, env>>

\* the cart row of INSERT INTO cart (user_id, created_at, expires_at)
CartRow(u) == [user_id |-> u, created_at |-> now, expires_at |-> now + CartTTL]

\* INSERT INTO cart ... RETURNING id
CreateCartInsertCart(p) ==
    /\ pc[p] = "cc_insert_cart"
    /\ \/ /\ cart' = [c \in DOMAIN cart \cup {next_cart_id} |->
                        IF c = next_cart_id THEN CartRow(req[p].user_id) ELSE cart[c]]
          /\ next_cart_id' = next_cart_id + 1
          /\ Step(p, "cc_insert_item", [loc[p] EXCEPT !.cart_id = next_cart_id, !.i = 1])
       \/ /\ Finish(p, Response(500, "Failed to create cart", NoCart))
          /\ UNCHANGED <<cart, next_cart_id>>
    /\ UNCHANGED <<cart_items, orders, order_items, next_order_id, order_cart, cache, sqs, env>>

\* the cart_items row of the i-th item of the request
CartItemRow(c, i, item) ==
    [cart_id |-> c, id |-> i, product_id |-> item.product_id,
     quantity |-> item.quantity, price |-> item.price]

\* for item in cart_request.items: INSERT INTO cart_items ...; then return
CreateCartInsertItem(p) ==
    /\ pc[p] = "cc_insert_item"
    /\ IF loc[p].i <= Len(req[p].items)
       THEN \/ /\ cart_items' = cart_items \cup
                     {CartItemRow(loc[p].cart_id, loc[p].i, req[p].items[loc[p].i])}
               /\ Step(p, "cc_insert_item", [loc[p] EXCEPT !.i = loc[p].i + 1])
            \/ /\ Finish(p, Response(500, "Failed to create cart", NoCart))
               /\ UNCHANGED cart_items
       ELSE /\ Finish(p, Response(201, "Cart created successfully",
                                  [NoCart EXCEPT !.id = loc[p].cart_id]))
            /\ UNCHANGED cart_items
    /\ UNCHANGED <<cart, orders, order_items, seqs, order_cart, cache, sqs, env>>

\* ---------------------------------------------------------------- get_cart
\* GET /api/cart/{cart_id}: cached = await redis_client.get(...); if cached: return
GetCartCall(p) ==
    /\ pc[p] = "idle"
    /\ \E c \in CartIds :
        \/ IF CacheGet(c) # NoCart
           THEN Finish(p, Response(200, "OK", CacheGet(c)))
           ELSE Call(p, "gc_fetch_cart", [op |-> "get_cart", cart_id |-> c])
        \/ \* redis unreachable: the exception reaches `except Exception`
           Finish(p, Response(500, "Failed to fetch cart", NoCart))
    /\ UNCHANGED <<db, seqs, order_cart, cache, sqs, env>>

\* SELECT * FROM cart WHERE id = $1; 404 when there is no row
GetCartFetchCart(p) ==
    /\ pc[p] = "gc_fetch_cart"
    /\ \/ IF req[p].cart_id \in DOMAIN cart
          THEN Step(p, "gc_fetch_items", [loc[p] EXCEPT !.row = cart[req[p].cart_id]])
          ELSE Finish(p, Response(404, "Cart not found", NoCart))
       \/ Finish(p, Response(500, "Failed to fetch cart", NoCart))
    /\ UNCHANGED <<db, seqs, order_cart, cache, sqs, env>>

\* SELECT ci.* ... WHERE ci.cart_id = $1 (every product of Products has a products row)
GetCartFetchItems(p) ==
    /\ pc[p] = "gc_fetch_items"
    /\ \/ Step(p, "gc_setex", [loc[p] EXCEPT !.fetched = ItemsOf(req[p].cart_id)])
       \/ Finish(p, Response(500, "Failed to fetch cart", NoCart))
    /\ UNCHANGED <<db, seqs, order_cart, cache, sqs, env>>

\* result = {id, user_id, items, created_at}
CartResult(p) ==
    [id |-> req[p].cart_id, user_id |-> loc[p].row.user_id,
     items |-> loc[p].fetched, created_at |-> loc[p].row.created_at]

\* redis_client.setex(key, 300, result); return result
GetCartSetex(p) ==
    /\ pc[p] = "gc_setex"
    /\ \/ /\ cache' = [cache EXCEPT ![req[p].cart_id] =
                          [value |-> CartResult(p), expires |-> now + CacheTTL]]
          /\ Finish(p, Response(200, "OK", CartResult(p)))
       \/ /\ Finish(p, Response(500, "Failed to fetch cart", NoCart))
          /\ UNCHANGED cache
    /\ UNCHANGED <<db, seqs, order_cart, sqs, env>>

\* ---------------------------------------------------------------- create_order
\* POST /api/orders
CreateOrderCall(p) ==
    /\ pc[p] = "idle"
    /\ next_order_id + Cardinality({q \in Tasks : pc[q] \in {"co_fetch_items", "co_insert_order"}})
         <= MaxOrders
    /\ \E u \in Requesters, c \in CartIds :
        Call(p, "co_fetch_items", [op |-> "create_order", user_id |-> u, cart_id |-> c])
    /\ UNCHANGED <<db, seqs, order_cart, cache, sqs, env>>

\* the statements run outside a transaction: the DELETEs already done stay done
Rollback_KeepsDeletes(p, r) ==
    /\ Finish(p, r)
    /\ cart_items' = cart_items \ loc[p].d_items
    /\ cart' = [c \in DOMAIN cart \ loc[p].d_cart |-> cart[c]]
    /\ UNCHANGED <<orders, order_items, order_cart>>

\* leaving conn.transaction() by an exception: ROLLBACK drops the write set and the locks
Rollback(p, r) ==
    /\ Finish(p, r)
    /\ UNCHANGED <<db, order_cart>>

\* BEGIN; SELECT * FROM cart_items WHERE cart_id = $1; 404 when there are no rows
CreateOrderFetchItems(p) ==
    /\ pc[p] = "co_fetch_items"
    /\ \/ IF ItemsOf(req[p].cart_id) # {}
          THEN /\ Step(p, "co_insert_order",
                       [loc[p] EXCEPT !.tx_start = now, !.fetched = ItemsOf(req[p].cart_id)])
               /\ UNCHANGED <<db, order_cart>>
          ELSE Rollback(p, Response(404, "Cart is empty", NoCart))
       \/ Rollback(p, Response(500, "Failed to create order", NoCart))
    /\ UNCHANGED <<seqs, cache, sqs, env>>

\* total = sum(...); INSERT INTO orders ... RETURNING id
CreateOrderInsertOrder(p) ==
    /\ pc[p] = "co_insert_order"
    /\ \/ /\ Step(p, "co_insert_items",
                  [loc[p] EXCEPT !.total = CalcTotal(loc[p].fetched),
                                 !.order_id = next_order_id])
          /\ next_order_id' = next_order_id + 1
          /\ UNCHANGED <<db, order_cart>>
       \/ /\ Rollback(p, Response(500, "Failed to create order", NoCart))
          /\ UNCHANGED next_order_id
    /\ UNCHANGED <<next_cart_id, cache, sqs, env>>

\* the order_items row inserted for a fetched cart_items row
OrderItemRow(o, item) ==
    [order_id |-> o, id |-> item.id, product_id |-> item.product_id,
     quantity |-> item.quantity, price |-> item.price]

\* for item in cart_items: INSERT INTO order_items ...
CreateOrderInsertItems(p) ==
    /\ pc[p] = "co_insert_items"
    /\ \/ /\ Step(p, "co_delete_items",
                  [loc[p] EXCEPT !.w_items =
                      {OrderItemRow(loc[p].order_id, item) : item \in loc[p].fetched}])
          /\ UNCHANGED <<db, order_cart>>
       \/ Rollback(p, Response(500, "Failed to create order", NoCart))
    /\ UNCHANGED <<seqs, cache, sqs, env>>

\* DELETE FROM cart_items WHERE cart_id = $1 (waits for rows another transaction locked)
CreateOrderDeleteItems(p) ==
    /\ pc[p] = "co_delete_items"
    /\ ItemsOf(req[p].cart_id) \cap LockedItems(p) = {}
    /\ \/ /\ Step(p, "co_delete_cart", [loc[p] EXCEPT !.d_items = ItemsOf(req[p].cart_id)])
          /\ UNCHANGED <<db, order_cart>>
       \/ Rollback(p, Response(500, "Failed to create order", NoCart))
    /\ UNCHANGED <<seqs, cache, sqs, env>>

\* DELETE FROM cart WHERE id = $1
CreateOrderDeleteCart(p) ==
    /\ pc[p] = "co_delete_cart"
    /\ req[p].cart_id \notin LockedCarts(p)
    /\ \/ /\ Step(p, "co_send", [loc[p] EXCEPT !.d_cart = {req[p].cart_id} \cap DOMAIN cart])
          /\ UNCHANGED <<db, order_cart>>
       \/ Rollback(p, Response(500, "Failed to create order", NoCart))
    /\ UNCHANGED <<seqs, cache, sqs, env>>

\* the OrderCreated message body
OrderCreatedMessage(p) ==
    [event |-> "OrderCreated", order_id |-> loc[p].order_id, user_id |-> req[p].user_id]

\* queue_url = os.getenv('ORDER_QUEUE_URL'); if queue_url: sqs_client.send_message(...)
CreateOrderSend(p) ==
    /\ pc[p] = "co_send"
    /\ IF queue_url
       THEN \/ /\ sqs' = sqs \cup {OrderCreatedMessage(p)}
               /\ Step(p, "co_commit", loc[p])
               /\ UNCHANGED <<db, order_cart>>
            \/ /\ Rollback(p, Response(500, "Failed to create order", NoCart))
               /\ UNCHANGED sqs
       ELSE /\ Step(p, "co_commit", loc[p])
            /\ UNCHANGED <<db, order_cart, sqs>>
    /\ UNCHANGED <<seqs, cache, env>>

\* the orders row of the write set (NOW() is the transaction's start)
OrderRow(p) ==
    [user_id |-> req[p].user_id, status |-> "pending", total |-> loc[p].total,
     currency |-> "USD", created_at |-> loc[p].tx_start, updated_at |-> loc[p].tx_start]

\* COMMIT applies the write set of the transaction
Commit(p) ==
    /\ orders' = [o \in DOMAIN orders \cup {loc[p].order_id} |->
                    IF o = loc[p].order_id THEN OrderRow(p) ELSE orders[o]]
    /\ order_items' = order_items \cup loc[p].w_items
    /\ cart_items' = cart_items \ loc[p].d_items
    /\ cart' = [c \in DOMAIN cart \ loc[p].d_cart |-> cart[c]]
    /\ order_cart' = [o \in DOMAIN order_cart \cup {loc[p].order_id} |->
                        IF o = loc[p].order_id THEN req[p].cart_id ELSE order_cart[o]]

\* return {...} leaves conn.transaction()
CreateOrderCommit(p) ==
    /\ pc[p] = "co_commit"
    /\ \/ /\ Commit(p)
          /\ Finish(p, Response(201, "Order created successfully",
                                [NoCart EXCEPT !.id = loc[p].order_id]))
       \/ Rollback(p, Response(500, "Failed to create order", NoCart))
    /\ UNCHANGED <<seqs, cache, sqs, env>>

\* ---------------------------------------------------------------- update_order_status
\* the UPDATE without its WHERE id = $2
UpdateOrderStatus_NoWhere(p) ==
    /\ pc[p] = "idle"
    /\ \E o \in OrderIds, s \in RequestedStatuses :
        IF o \in DOMAIN orders
        THEN /\ orders' = [x \in DOMAIN orders |->
                             [orders[x] EXCEPT !.status = s, !.updated_at = now]]
             /\ Finish(p, Response(200, "Order status updated successfully", NoCart))
        ELSE /\ Finish(p, Response(404, "Order not found", NoCart))
             /\ UNCHANGED orders
    /\ UNCHANGED <<cart, cart_items, order_items, seqs, order_cart, cache, sqs, env>>

\* PATCH /api/orders/{order_id}/status: UPDATE orders SET status = $1, updated_at = NOW()
UpdateOrderStatus(p) ==
    /\ pc[p] = "idle"
    /\ \E o \in OrderIds, s \in RequestedStatuses :
        \/ IF o \in DOMAIN orders
           THEN /\ orders' = [orders EXCEPT ![o].status = s, ![o].updated_at = now]
                /\ Finish(p, Response(200, "Order status updated successfully", NoCart))
           ELSE /\ Finish(p, Response(404, "Order not found", NoCart))
                /\ UNCHANGED orders
        \/ /\ Finish(p, Response(500, "Failed to update order status", NoCart))
           /\ UNCHANGED orders
    /\ UNCHANGED <<cart, cart_items, order_items, seqs, order_cart, cache, sqs, env>>

\* ---------------------------------------------------------------- get_order
\* GET /api/orders/{order_id}
GetOrderCall(p) ==
    /\ pc[p] = "idle"
    /\ \E o \in OrderIds : Call(p, "go_fetch_order", [op |-> "get_order", order_id |-> o])
    /\ UNCHANGED <<db, seqs, order_cart, cache, sqs, env>>

\* SELECT * FROM orders WHERE id = $1; 404 when there is no row
GetOrderFetchOrder(p) ==
    /\ pc[p] = "go_fetch_order"
    /\ \/ IF req[p].order_id \in DOMAIN orders
          THEN Step(p, "go_fetch_items", [loc[p] EXCEPT !.order = orders[req[p].order_id]])
          ELSE Finish(p, Response(404, "Order not found", NoCart))
       \/ Finish(p, Response(500, "Failed to fetch order", NoCart))
    /\ UNCHANGED <<db, seqs, order_cart, cache, sqs, env>>

\* OrderResponse(id, user_id, status, total, currency, created_at, items)
OrderResponse(o, row, items) ==
    [id |-> o, user_id |-> row.user_id, status |-> row.status, total |-> row.total,
     currency |-> row.currency, created_at |-> row.created_at, items |-> items]

\* SELECT oi.* ... WHERE oi.order_id = $1; return OrderResponse(...)
GetOrderFetchItems(p) ==
    /\ pc[p] = "go_fetch_items"
    /\ \/ Finish(p, Response(200, "Order", OrderResponse(req[p].order_id, loc[p].order,
                                                         OrderItemsOf(req[p].order_id))))
       \/ Finish(p, Response(500, "Failed to fetch order", NoCart))
    /\ UNCHANGED <<db, seqs, order_cart, cache, sqs, env>>

\* ---------------------------------------------------------------- get_user_orders
\* the orders of user u in the orders ORDER BY created_at DESC may return them
OrdersByCreatedDesc(u) ==
    LET mine == {o \in DOMAIN orders : orders[o].user_id = u}
        n == Cardinality(mine)
    IN  {s \in [1..n -> mine] :
            /\ \A i, j \in 1..n : i # j => s[i] # s[j]
            /\ \A i, j \in 1..n : i < j => orders[s[i]].created_at >= orders[s[j]].created_at}

\* LIMIT $2 OFFSET $3
Page(s, limit, offset) ==
    SubSeq(s, offset + 1, IF offset + limit < Len(s) THEN offset + limit ELSE Len(s))

\* SELECT id, status, total, currency, created_at: one dict per row
OrderSummary(o) ==
    [id |-> o, status |-> orders[o].status, total |-> orders[o].total,
     currency |-> orders[o].currency, created_at |-> orders[o].created_at]

\* GET /api/orders/user/{user_id}?limit=&offset=
GetUserOrders(p) ==
    /\ pc[p] = "idle"
    /\ \E u \in Users, limit \in Limits, offset \in Offsets :
        \/ \E s \in OrdersByCreatedDesc(u) :
              Finish(p, Response(200, "Orders",
                        [k \in 1..Len(Page(s, limit, offset)) |->
                            OrderSummary(Page(s, limit, offset)[k])]))
        \/ Finish(p, Response(500, "Failed to fetch orders", NoCart))
    /\ UNCHANGED <<db, seqs, order_cart, cache, sqs, env>>

\* ---------------------------------------------------------------- specifications
\* steps of create_cart and create_order, the clock, and the client reading a response
OrderingStep ==
    \/ Tick
    \/ \E p \in Tasks : Return(p)
    \/ \E p \in Tasks : CreateCartCall(p)
    \/ \E p \in Tasks : CreateCartInsertCart(p)
    \/ \E p \in Tasks : CreateCartInsertItem(p)
    \/ \E p \in Tasks : CreateOrderCall(p)
    \/ \E p \in Tasks : CreateOrderFetchItems(p)
    \/ \E p \in Tasks : CreateOrderInsertOrder(p)
    \/ \E p \in Tasks : CreateOrderInsertItems(p)
    \/ \E p \in Tasks : CreateOrderDeleteItems(p)
    \/ \E p \in Tasks : CreateOrderDeleteCart(p)
    \/ \E p \in Tasks : CreateOrderSend(p)
    \/ \E p \in Tasks : CreateOrderCommit(p)

\* steps of get_cart
GetCartStep ==
    \/ \E p \in Tasks : GetCartCall(p)
    \/ \E p \in Tasks : GetCartFetchCart(p)
    \/ \E p \in Tasks : GetCartFetchItems(p)
    \/ \E p \in Tasks : GetCartSetex(p)

\* carts, the cart cache and orders: create_cart, get_cart, create_order
Next ==
    \/ OrderingStep
    \/ GetCartStep

Spec == Init /\ [][Next]_vars

\* carts and the life of orders: create_cart, create_order, update_order_status
\* (get_cart writes only the cache, which these handlers never read)
NextStatus ==
    \/ OrderingStep
    \/ \E p \in Tasks : UpdateOrderStatus(p)

SpecStatus == Init /\ [][NextStatus]_vars

\* task 1 serves every handler while task 2 serves create_order requests beside it
NextFrame ==
    \/ Tick
    \/ \E p \in Tasks : Return(p)
    \/ CreateCartCall(1)
    \/ CreateCartInsertCart(1)
    \/ CreateCartInsertItem(1)
    \/ \E p \in Tasks : CreateOrderCall(p)
    \/ \E p \in Tasks : CreateOrderFetchItems(p)
    \/ \E p \in Tasks : CreateOrderInsertOrder(p)
    \/ \E p \in Tasks : CreateOrderInsertItems(p)
    \/ \E p \in Tasks : CreateOrderDeleteItems(p)
    \/ \E p \in Tasks : CreateOrderDeleteCart(p)
    \/ \E p \in Tasks : CreateOrderSend(p)
    \/ \E p \in Tasks : CreateOrderCommit(p)
    \/ GetCartCall(1)
    \/ GetCartFetchCart(1)
    \/ GetCartFetchItems(1)
    \/ GetCartSetex(1)
    \/ UpdateOrderStatus(1)
    \/ GetOrderCall(1)
    \/ GetOrderFetchOrder(1)
    \/ GetOrderFetchItems(1)
    \/ GetUserOrders(1)

SpecFrame == Init /\ [][NextFrame]_vars

\* the event loop runs every task that is inside a handler; clients need not send requests
HandlerStep(p) ==
    \/ CreateCartInsertCart(p)
    \/ CreateCartInsertItem(p)
    \/ CreateOrderFetchItems(p)
    \/ CreateOrderInsertOrder(p)
    \/ CreateOrderInsertItems(p)
    \/ CreateOrderDeleteItems(p)
    \/ CreateOrderDeleteCart(p)
    \/ CreateOrderSend(p)
    \/ CreateOrderCommit(p)

SpecFair == Init /\ [][OrderingStep]_vars /\ \A p \in Tasks : WF_vars(HandlerStep(p))

\* ---------------------------------------------------------------- properties
\* orders inserted by requests that named cart c
OrdersOf(c) == {o \in DOMAIN orders : order_cart[o] = c}

\* cart c has been converted: an order of a request naming it is committed
Converted(c) == OrdersOf(c) # {}

\* OrderCreated messages the queue holds for order o
EventsOf(o) == {m \in sqs : m.event = "OrderCreated" /\ m.order_id = o}

\* task p takes the step that commits its create_order transaction
Commits(p) ==
    /\ pc[p] = "co_commit"
    /\ loc[p].order_id \notin DOMAIN orders
    /\ loc[p].order_id \in DOMAIN orders'

\* task p takes a step that ends its create_order with an error
FailsCreateOrder(p) ==
    /\ req[p].op = "create_order"
    /\ pc'[p] = "done"
    /\ resp'[p].status # 201

\* C1: over any number of createOrder calls on one cart id, at most one creates an
\* order: no cart ever has two committed orders.
C1_AtMostOneOrderPerCart ==
    \A c \in CartIds : Cardinality(OrdersOf(c)) <= 1

\* C2: every committed order has exactly one OrderCreated event recorded for it.
C2_ExactlyOneOrderCreatedEvent ==
    \A o \in DOMAIN orders : Cardinality(EventsOf(o)) = 1

\* C3: a getCart that starts after createOrder committed for the cart never returns a
\* cart body: it does not answer 200 from the cache, and it finds no cart row.
C3_NoCartAfterConversion ==
    [][\A p \in Tasks :
          /\ (pc[p] = "idle" /\ pc'[p] = "done" /\ resp'[p].detail = "OK")
                => ~Converted(resp'[p].body.id)
          /\ (pc[p] = "gc_fetch_cart" /\ Converted(req[p].cart_id))
                => pc'[p] # "gc_fetch_items"]_vars

\* C4: an order whose status is completed or cancelled keeps that status: updateStatus
\* on it fails for every requested status.
C4_TerminalStatusIsFinal ==
    [][\A o \in DOMAIN orders :
          orders[o].status \in {"completed", "cancelled"}
             => orders'[o].status = orders[o].status]_vars

\* C5: the total stored on every committed order equals the exact sum over its order
\* items of quantity times unit price.
C5_TotalIsSumOfOrderItems ==
    \A o \in DOMAIN orders : orders[o].total = SumRows(OrderItemsOf(o))

C5_Witness ==
    \E o \in DOMAIN orders :
        /\ Cardinality(OrderItemsOf(o)) >= 2
        /\ \E r \in OrderItemsOf(o) : r.quantity >= 2
        /\ orders[o].status = "completed"

\* C6: a createOrder that fails before commit leaves storage exactly as it was: its
\* order and order items are not stored, and the cart items and cart row it deleted
\* inside the transaction are still there.
C6_FailureLeavesStorageUntouched ==
    [][\A p \in Tasks :
          FailsCreateOrder(p) =>
             /\ db' = db
             /\ loc[p].order_id \notin DOMAIN orders'
             /\ loc[p].w_items \cap order_items' = {}
             /\ loc[p].d_items \subseteq cart_items'
             /\ loc[p].d_cart \subseteq DOMAIN cart']_vars

\* an attempt failed after taking an order id, and a later one converted the cart
C6_Witness ==
    /\ 1 \notin DOMAIN orders
    /\ 2 \in DOMAIN orders
    /\ order_cart[2] \notin DOMAIN cart

\* C7: the outcome of createOrder does not depend on the broker: the step that hands
\* the event to the queue never ends the request with an error.
C7_SendNeverFailsRequest ==
    [][\A p \in Tasks :
          (pc[p] = "co_send" /\ pc'[p] = "done") => resp'[p].status = 201]_vars

\* C8: the OrderCreated event of every committed order is eventually delivered.
C8_EventEventuallyDelivered ==
    \A o \in OrderIds : (o \in DOMAIN orders) ~> (EventsOf(o) # {})

\* C9: a cache failure never fails a request: neither the cache read that opens
\* getCart nor the cache write that closes it ends the request with an error.
C9_CacheFailureNeverFailsRequest ==
    [][\A p \in Tasks :
          (pc[p] \in {"idle", "gc_setex"} /\ pc'[p] = "done")
             => resp'[p].detail # "Failed to fetch cart"]_vars

\* C10: createOrder creates an order only from a cart that is present and not past
\* its expiry timestamp when the transaction starts.
C10_OnlyAvailableCartsConverted ==
    [][\A p \in Tasks :
          Commits(p) =>
             /\ req[p].cart_id \in DOMAIN cart
             /\ loc[p].tx_start <= cart[req[p].cart_id].expires_at]_vars

\* cart c is in storage and not past its expiry timestamp
Active(c) == c \in DOMAIN cart /\ now <= cart[c].expires_at

\* C11: getCart returns a cart body only for a cart that is in storage and active
\* when the call reads it: a cache hit answers only for such a cart, and the storage
\* path goes on to build a body only for such a cart.
C11_BodyOnlyForActiveCart ==
    [][\A p \in Tasks :
          /\ (pc[p] = "idle" /\ pc'[p] = "done" /\ resp'[p].detail = "OK")
                => Active(resp'[p].body.id)
          /\ (pc[p] = "gc_fetch_cart" /\ pc'[p] = "gc_fetch_items")
                => Active(req[p].cart_id)]_vars

\* status-change events the queue holds for order o
StatusEventsOf(o) == {m \in sqs : m.event \in {"OrderCompleted", "OrderCancelled"}
                                  /\ m.order_id = o}

\* C12: an order has left pending for completed or cancelled exactly when one event
\* of the matching type is recorded for it.
C12_StatusChangeHasItsEvent ==
    \A o \in DOMAIN orders :
        /\ orders[o].status = "completed"
              => \E m \in StatusEventsOf(o) :
                    m.event = "OrderCompleted" /\ StatusEventsOf(o) = {m}
        /\ orders[o].status = "cancelled"
              => \E m \in StatusEventsOf(o) :
                    m.event = "OrderCancelled" /\ StatusEventsOf(o) = {m}
        /\ orders[o].status = "pending" => StatusEventsOf(o) = {}

\* C13: a createCart request with a quantity of zero or less never reaches the
\* handler, and every stored cart item has quantity >= 1.
C13_OnlyPositiveQuantitiesStored ==
    /\ \A r \in cart_items : r.quantity >= 1
    /\ \A p \in Tasks :
          req[p].op = "create_cart"
             => \A k \in 1..Len(req[p].items) : req[p].items[k].quantity >= 1

\* a createCart was rejected by validation and nothing is stored
C13_Witness ==
    /\ \E p \in Tasks : pc[p] = "done" /\ resp[p].status = 422
    /\ DOMAIN cart = {}
    /\ cart_items = {}
    /\ next_cart_id = 1

\* C14: the status of every order is one of pending, completed, cancelled.
C14_StatusInAllowedSet ==
    \A o \in DOMAIN orders : orders[o].status \in {"pending", "completed", "cancelled"}

\* task p takes the step of update_order_status
UpdateStep(p) ==
    /\ pc[p] = "idle"
    /\ pc'[p] = "done"
    /\ resp'[p].detail \in {"Order status updated successfully", "Order not found",
                            "Failed to update order status"}

\* labels of create_order
CreateOrderLabels == {"co_fetch_items", "co_insert_order", "co_insert_items",
                      "co_delete_items", "co_delete_cart", "co_send", "co_commit"}

\* C15: a committed order is never deleted and keeps its owner, total, currency,
\* creation timestamp and order items; updateStatus changes at most one order and
\* leaves carts, cart items and order items alone; every step that is not of
\* createOrder or updateStatus leaves all orders unchanged.
C15_OrdersImmutableButStatus ==
    [][/\ \A o \in DOMAIN orders :
             /\ o \in DOMAIN orders'
             /\ orders'[o].user_id = orders[o].user_id
             /\ orders'[o].total = orders[o].total
             /\ orders'[o].currency = orders[o].currency
             /\ orders'[o].created_at = orders[o].created_at
             /\ {r \in order_items' : r.order_id = o} = OrderItemsOf(o)
       /\ \A p \in Tasks :
             UpdateStep(p) =>
                /\ DOMAIN orders' = DOMAIN orders
                /\ Cardinality({o \in DOMAIN orders : orders'[o] # orders[o]}) <= 1
                /\ UNCHANGED <<cart, cart_items, order_items>>
       /\ \A p \in Tasks :
             (pc'[p] # pc[p] /\ ~UpdateStep(p) /\ pc[p] \notin CreateOrderLabels)
                => UNCHANGED <<orders, order_items>>]_vars

\* one of two orders was completed after its creation, the other is still pending
C15_Witness ==
    \E o1, o2 \in DOMAIN orders :
        /\ o1 # o2
        /\ orders[o1].status = "completed"
        /\ orders[o1].updated_at > orders[o1].created_at
        /\ orders[o2].status = "pending"
        /\ orders[o2].updated_at = orders[o2].created_at

\* C16: the order items of a created order are exactly the cart items the cart holds
\* when the conversion commits, and after the commit the cart row and all of its
\* cart items are gone from storage.
C16_OrderItemsAreTheCartItems ==
    [][\A p \in Tasks :
          Commits(p) =>
             /\ {r \in order_items' : r.order_id = loc[p].order_id}
                   = {OrderItemRow(loc[p].order_id, item) : item \in ItemsOf(req[p].cart_id)}
             /\ {r \in cart_items' : r.cart_id = req[p].cart_id} = {}
             /\ req[p].cart_id \notin DOMAIN cart']_vars

\* C17: createOrder answers with the empty-cart error only for a cart that exists
\* and has no items (an absent cart gets a different error); that answer creates no
\* order, sends no event and leaves the cart in storage.
C17_EmptyCartErrorOnlyForExistingCart ==
    [][\A p \in Tasks :
          (pc[p] = "co_fetch_items" /\ pc'[p] = "done"
              /\ resp'[p].detail = "Cart is empty")
             => /\ req[p].cart_id \in DOMAIN cart
                /\ ItemsOf(req[p].cart_id) = {}
                /\ UNCHANGED <<db, sqs>>]_vars

\* tasks whose create_cart has inserted cart c and not yet all of its items
Creating(c) ==
    {q \in Tasks : pc[q] = "cc_insert_item" /\ loc[q].cart_id = c
                   /\ loc[q].i <= Len(req[q].items)}

\* C18: createCart is all-or-nothing: when it fails nothing of its cart stays in
\* storage, and no getCart or createOrder reads a cart whose items are still being
\* inserted.
C18_CreateCartAllOrNothing ==
    [][\A p \in Tasks :
          /\ (req[p].op = "create_cart" /\ pc'[p] = "done" /\ resp'[p].status = 500)
                => /\ loc[p].cart_id \notin DOMAIN cart'
                   /\ {r \in cart_items' : r.cart_id = loc[p].cart_id} = {}
          /\ (pc[p] \in {"gc_fetch_cart", "gc_fetch_items", "co_fetch_items"}
                /\ pc'[p] \in {"gc_fetch_items", "gc_setex", "co_insert_order"})
                => Creating(req[p].cart_id) = {}]_vars

\* C19: every OrderCreated event handed to the queue refers to an order that is
\* committed, or whose transaction is still about to commit.
C19_EventsReferToCommittedOrders ==
    \A m \in sqs :
        \/ m.order_id \in DOMAIN orders
        \/ \E p \in Tasks : pc[p] = "co_commit" /\ loc[p].order_id = m.order_id

\* C20: an order is created from a cart only by a request of the cart's owner.
C20_OrderOwnerIsCartOwner ==
    [][\A p \in Tasks :
          (Commits(p) /\ req[p].cart_id \in DOMAIN cart)
             => req[p].user_id = cart[req[p].cart_id].user_id]_vars
====
